---- MODULE Spec2Model ----
(***************************************************************************)
(* Model of ykk_emergency_response.py: a single-poll emergency check-in    *)
(* tool.  Staff sessions log in with a phone number and submit one         *)
(* response inside the poll window; one admin session edits a settings     *)
(* draft, saves it key by key, uploads the roster and clears data.         *)
(*                                                                         *)
(* Strings that the code inspects character by character (phone numbers,   *)
(* the phone column name) are sequences of one-character strings.  A       *)
(* naive datetime is a number of seconds since 2026-01-01 00:00:00; the    *)
(* text produced by strftime("%Y-%m-%d %H:%M:%S") is the tuple             *)
(* <<day, hour, minute, second>>.  An aware datetime is a number of        *)
(* seconds since 2026-01-01 00:00:00 UTC.  A nullable value (a settings    *)
(* row that may be absent, a session key that may be missing) is a         *)
(* sequence of length 0 or 1.                                              *)
(***************************************************************************)
EXTENDS Integers, Sequences, FiniteSets, TLC

(***************************************************************************)
(* Bounds of the model.                                                    *)
(***************************************************************************)
NumSessions == 2
MaxDayShift == 2
MaxEdits == 2
MaxPollEdits == 2
MaxSaves == 1
MaxUploads == 1
MaxTimeEdits == 4
MaxPhoneLen == 3
MaxCoreFree == 2

(***************************************************************************)
(* Program constants.                                                      *)
(***************************************************************************)
DEFAULT_COL_PHONE == <<"P", "h", "o", "n", "e">>
DEFAULT_TIMEZONE == "Asia/Karachi"
DEFAULT_POLL_START == ((0 * 24 + 9) * 60 + 0) * 60
DEFAULT_POLL_END == ((30 * 24 + 18) * 60 + 0) * 60
DEFAULT_PHONE_VALIDATION_MODE == "flexible"
DEFAULT_TIME_FORMAT == "12"

None == <<>>
Some(v) == <<v>>

Digits == {"0", "1", "2", "3", "4", "5", "6", "7", "8", "9"}
Whitespace == {" ", "\t", "\n"}

(***************************************************************************)
(* Helper functions on strings.                                            *)
(***************************************************************************)
RECURSIVE LStrip(_)
LStrip(s) ==
  IF s # <<>> /\ Head(s) \in Whitespace THEN LStrip(Tail(s)) ELSE s

RECURSIVE RStrip(_)
RStrip(s) ==
  IF s # <<>> /\ s[Len(s)] \in Whitespace
    THEN RStrip(SubSeq(s, 1, Len(s) - 1))
    ELSE s

\* str.strip()
Strip(s) == RStrip(LStrip(s))

\* str.replace(c, "")
RECURSIVE Remove(_, _)
Remove(s, c) ==
  IF s = <<>> THEN <<>>
  ELSE IF Head(s) = c THEN Remove(Tail(s), c)
  ELSE <<Head(s)>> \o Remove(Tail(s), c)

StartsWith(s, p) == Len(s) >= Len(p) /\ SubSeq(s, 1, Len(p)) = p

AllDigits(s) == \A i \in 1..Len(s) : s[i] \in Digits

\* "$" of a Python regular expression: the end of the string, or just
\* before a newline that ends the string.
BeforeDollar(s) ==
  IF s # <<>> /\ s[Len(s)] = "\n" THEN {s, SubSeq(s, 1, Len(s) - 1)} ELSE {s}

StrictShape(b) ==
  \E p \in {<<>>, <<"+", "9", "2">>, <<"9", "2">>, <<"0">>} :
    /\ StartsWith(b, p)
    /\ Len(b) = Len(p) + 10
    /\ b[Len(p) + 1] = "3"
    /\ AllDigits(SubSeq(b, Len(p) + 2, Len(b)))

FlexibleShape(b) ==
  LET d == IF b # <<>> /\ Head(b) = "+" THEN Tail(b) ELSE b
  IN  Len(d) >= 7 /\ Len(d) <= 15 /\ AllDigits(d)

validate_phone(phone, mode) ==
  IF mode = "strict"
    THEN \E b \in BeforeDollar(phone) : StrictShape(b)
    ELSE \E b \in BeforeDollar(phone) : FlexibleShape(b)

clean_phone(phone) ==
  Remove(Remove(Remove(Remove(Strip(phone), " "), "-"), "("), ")")

\* Mutant of normalize_for_comparison: a leading 92 without "+" is kept.
normalize_for_comparison_Plus(raw) ==
  LET phone == clean_phone(raw)
  IN  IF StartsWith(phone, <<"+", "9", "2">>) THEN SubSeq(phone, 4, Len(phone))
      ELSE IF StartsWith(phone, <<"0">>) THEN SubSeq(phone, 2, Len(phone))
      ELSE phone

normalize_for_comparison(raw) ==
  LET phone == clean_phone(raw)
  IN  IF StartsWith(phone, <<"+", "9", "2">>) THEN SubSeq(phone, 4, Len(phone))
      ELSE IF StartsWith(phone, <<"9", "2">>) /\ Len(phone) > 10
        THEN SubSeq(phone, 3, Len(phone))
      ELSE IF StartsWith(phone, <<"0">>) THEN SubSeq(phone, 2, Len(phone))
      ELSE phone

(***************************************************************************)
(* Time: datetime.combine, tz.localize, strftime, strptime, time(h, m).    *)
(***************************************************************************)
UtcOffset(tz) == IF tz = "Asia/Karachi" THEN 5 * 3600 ELSE 0

Combine(date, t) == ((date * 24 + t[1]) * 60 + t[2]) * 60
Localize(naive, tz) == naive - UtcOffset(tz)
AsLocal(aware, tz) == aware + UtcOffset(tz)

Strftime(naive) ==
  <<naive \div 86400, (naive % 86400) \div 3600, (naive % 3600) \div 60,
    naive % 60>>
Strptime(str) == ((str[1] * 24 + str[2]) * 60 + str[3]) * 60 + str[4]

DateOf(naive) == naive \div 86400
TimeOf(naive) == <<(naive % 86400) \div 3600, (naive % 3600) \div 60>>

convert_12hr_to_24hr(hour_12, minute, period) ==
  IF period = "PM" /\ hour_12 # 12 THEN <<hour_12 + 12, minute>>
  ELSE IF period = "AM" /\ hour_12 = 12 THEN <<0, minute>>
  ELSE <<hour_12, minute>>

\* Mutant of convert_24hr_to_12hr: the hour is taken modulo 12.
convert_24hr_to_12hr_Mod(hour_24, minute) ==
  IF hour_24 < 12 THEN <<hour_24, minute, "AM">>
  ELSE <<hour_24 - 12, minute, "PM">>

convert_24hr_to_12hr(hour_24, minute) ==
  IF hour_24 = 0 THEN <<12, minute, "AM">>
  ELSE IF hour_24 < 12 THEN <<hour_24, minute, "AM">>
  ELSE IF hour_24 = 12 THEN <<12, minute, "PM">>
  ELSE <<hour_24 - 12, minute, "PM">>

(***************************************************************************)
(* State.                                                                  *)
(*   settings      table settings(key PRIMARY KEY, value): one nullable    *)
(*                 value per key                                           *)
(*   employees     table employees(phone PRIMARY KEY, info) in rowid order *)
(*   poll_results  table poll_results(phone PRIMARY KEY, response,         *)
(*                 timestamp), as its set of rows                          *)
(*   clock         the wall clock, an aware instant                        *)
(*   sess          st.session_state of each staff browser session, with    *)
(*                 the position of its script run                          *)
(*   adm           st.session_state of the admin browser session, with the *)
(*                 position of a save in progress                          *)
(*   budget        the draft edits and the saves the behaviour has left    *)
(***************************************************************************)
VARIABLES settings, employees, poll_results, clock, sess, adm, budget

vars == <<settings, employees, poll_results, clock, sess, adm, budget>>

Sessions == 1..NumSessions

SettingKeys ==
  <<"poll_start", "poll_end", "validation_mode", "timezone", "time_format",
    "col_phone">>

NoSettings ==
  [poll_start |-> None, poll_end |-> None, validation_mode |-> None,
   timezone |-> None, time_format |-> None, col_phone |-> None]

(***************************************************************************)
(* Database access.                                                        *)
(***************************************************************************)
\* SELECT value FROM settings WHERE key=?; result[0] if result else default
get_setting(db, key, default) == IF db[key] = None THEN default ELSE db[key][1]

\* INSERT OR REPLACE INTO settings (key, value)
set_setting(db, key, value) == [db EXCEPT ![key] = Some(value)]

\* The aware datetimes POLL_START and POLL_END are kept as their wall time
\* in tz; Instant gives the point in time they denote.
get_poll_config(db) ==
  LET tz == get_setting(db, "timezone", DEFAULT_TIMEZONE)
  IN  [poll_start |-> IF db.poll_start # None
                        THEN Strptime(db.poll_start[1])
                        ELSE DEFAULT_POLL_START,
       poll_end |-> IF db.poll_end # None
                      THEN Strptime(db.poll_end[1])
                      ELSE DEFAULT_POLL_END,
       validation_mode |->
         get_setting(db, "validation_mode", DEFAULT_PHONE_VALIDATION_MODE),
       tz |-> tz,
       time_format |-> get_setting(db, "time_format", DEFAULT_TIME_FORMAT),
       col_phone |-> get_setting(db, "col_phone", DEFAULT_COL_PHONE)]

Instant(cfg, wall) == Localize(wall, cfg.tz)

has_already_voted(results, phone) == \E r \in results : r.phone = phone

\* The first employee, in table order, whose normalized phone matches.
RECURSIVE FirstMatch(_, _)
FirstMatch(emps, normalized_input) ==
  IF emps = <<>> THEN None
  ELSE IF normalize_for_comparison(Head(emps).phone) = normalized_input
    THEN Some(Head(emps).info)
  ELSE FirstMatch(Tail(emps), normalized_input)

get_employee(emps, phone) ==
  IF \E i \in 1..Len(emps) : emps[i].phone = phone
    THEN Some(emps[CHOOSE i \in 1..Len(emps) : emps[i].phone = phone].info)
    ELSE FirstMatch(emps, normalize_for_comparison(phone))

\* The "View Results" tab: get_total_employees, the "Not Voted" metric and
\* the rows of the not-voted export, as positions in the employees table.
get_total_employees(emps) == Len(emps)

total_not_voted(emps, results) ==
  get_total_employees(emps) - Cardinality(results)

voted_phones(results) == {r.phone : r \in results}

not_voted_df(emps, results) ==
  {i \in 1..Len(emps) : emps[i].phone \notin voted_phones(results)}

\* Mutant of SaveVoteRaises: a table without the primary key on phone.
SaveVoteRaises_NoKey(results, phone) == FALSE

\* Mutant of save_vote: INSERT OR REPLACE, the later writer wins.
save_vote_Replace(results, phone, response, timestamp) ==
  {r \in results : r.phone # phone} \cup
    {[phone |-> phone, response |-> response, timestamp |-> timestamp]}

\* INSERT INTO poll_results: the primary key on phone makes the insert of a
\* second row for a phone raise, and the table is then unchanged.
SaveVoteRaises(results, phone) == \E r \in results : r.phone = phone

save_vote(results, phone, response, timestamp) ==
  IF SaveVoteRaises(results, phone)
    THEN results
    ELSE results \cup
           {[phone |-> phone, response |-> response, timestamp |-> timestamp]}

(***************************************************************************)
(* Staff sessions: show_login_screen and show_user_interface.              *)
(***************************************************************************)
Options ==
  {"I am okay and safe.", "I am stuck but help not needed.",
   "I am stuck and help is needed."}

NoSeen == [start |-> 0, end |-> 0, now |-> 0, tz |-> ""]

\* phone_input is the text in the phone field of the login form, clean and
\* normalized_input what the login in progress has computed from it.
LoggedOut ==
  [logged_in |-> FALSE, user_phone |-> <<>>, user_info |-> "",
   view |-> "login", seen |-> NoSeen, pc |-> "idle", option |-> "",
   outcome |-> "none", start_str |-> None, phone_input |-> <<>>,
   clean |-> <<>>, normalized_input |-> <<>>]

\* The branch of the "Vote logic" chain that a script run takes.
PollView(now, start, end, voted) ==
  IF now < start THEN "not_started"
  ELSE IF now > end THEN "closed"
  ELSE IF voted THEN "voted"
  ELSE "form"

\* POLL_START, POLL_END, now and TZ of a script run: its one reading of the
\* configuration and of the clock.
RunLocals(db, now) ==
  LET cfg == get_poll_config(db)
  IN  [start |-> Instant(cfg, cfg.poll_start),
       end |-> Instant(cfg, cfg.poll_end), now |-> now, tz |-> cfg.tz]

\* One script run of show_user_interface up to the submit button: it shows
\* one of the four views.  seen holds the locals of a run that has reached
\* the button and is still to insert.
UserRun(u, db, results, now) ==
  LET l == RunLocals(db, now)
  IN  [u EXCEPT
         !.view = PollView(l.now, l.start, l.end,
                           has_already_voted(results, u.user_phone)),
         !.seen = NoSeen]

\* Phone numbers typed into the login form.
P0300 == <<"0", "3", "0", "0", "1", "2", "3", "4", "5", "6", "7">>
P92300 == <<"+", "9", "2", "3", "0", "0", "1", "2", "3", "4", "5", "6", "7">>
P0311 == <<"0", "3", "1", "1", "-", "1", "1", "1", "1", "1", "1", "1">>
PShort == <<"1", "2", "3">>
PhoneInputs == {P0300, P92300, PShort}

\* "Login / Report Status" on the staff tab of show_login_screen.
Login(s, phone_input, pw_ok) ==
  LET clean == clean_phone(phone_input)
      mode == get_poll_config(settings).validation_mode
      user_info == get_employee(employees, clean)
  IN  /\ ~sess[s].logged_in
      /\ IF /\ validate_phone(clean, mode)
            /\ pw_ok
            /\ user_info # None
            /\ user_info[1] # ""
           THEN sess' =
                  [sess EXCEPT
                     ![s] = UserRun([LoggedOut EXCEPT
                                       !.logged_in = TRUE,
                                       !.user_phone = clean,
                                       !.user_info = user_info[1]],
                                    settings, poll_results, clock)]
           ELSE UNCHANGED sess
      /\ UNCHANGED <<settings, employees, poll_results, clock, adm, budget>>

\* A script run of show_user_interface down to the submit button, with the
\* configuration db it has read; option is the radio choice of a click on
\* "Submit Response", "" for a run without a click.  The run reaches
\* save_vote only through the last branch of the vote logic; the insert
\* itself is the next step of the run.
RunToButton(u, db, results, now, option) ==
  LET r == [UserRun(u, db, results, now) EXCEPT !.start_str = None]
  IN  IF option # "" /\ r.view = "form"
        THEN [r EXCEPT !.pc = "insert", !.option = option,
                       !.seen = RunLocals(db, now), !.outcome = "none"]
        ELSE [r EXCEPT !.pc = "idle", !.option = "", !.outcome = "none"]

\* A script run without a click (a page refresh), and "Submit Response"
\* with an option chosen.  While nothing writes the settings table the six
\* reads of get_poll_config see one table, and the run down to the button
\* is one step.
Refresh(s) ==
  /\ sess[s].logged_in
  /\ sess[s].pc = "idle"
  /\ sess' = [sess EXCEPT
                ![s] = RunToButton(sess[s], settings, poll_results, clock, "")]
  /\ UNCHANGED <<settings, employees, poll_results, clock, adm, budget>>

SubmitCheck(s, option) ==
  /\ sess[s].logged_in
  /\ sess[s].pc = "idle"
  /\ sess[s].view = "form"
  /\ sess' = [sess EXCEPT
                ![s] = RunToButton(sess[s], settings, poll_results, clock,
                                   option)]
  /\ UNCHANGED <<settings, employees, poll_results, clock, adm, budget>>

\* The same runs while the admin may be saving: get_poll_config reads each
\* key with a query on a connection of its own, so a commit of the save can
\* fall between two of them.  ReadStart is the run's first read, of
\* poll_start; ReadRest is the other reads, the clock and the run down to
\* the button.
ReadStart(s, option) ==
  /\ sess[s].logged_in
  /\ sess[s].pc = "idle"
  /\ option # "" => sess[s].view = "form"
  /\ sess' = [sess EXCEPT ![s] = [@ EXCEPT !.pc = "read",
                                           !.option = option,
                                           !.outcome = "none",
                                           !.start_str = settings.poll_start]]
  /\ UNCHANGED <<settings, employees, poll_results, clock, adm, budget>>

ReadRest(s) ==
  LET db == [settings EXCEPT !.poll_start = sess[s].start_str]
  IN  /\ sess[s].pc = "read"
      /\ sess' = [sess EXCEPT
                    ![s] = RunToButton(sess[s], db, poll_results, clock,
                                       sess[s].option)]
      /\ UNCHANGED <<settings, employees, poll_results, clock, adm, budget>>

\* save_vote of a run that reached the button, with the run's own now; on
\* success st.rerun() runs the script again, on an exception the error is
\* shown under the form.
SubmitInsert(s) ==
  LET u == sess[s]
      timestamp_str == Strftime(AsLocal(u.seen.now, u.seen.tz))
      done == [u EXCEPT !.pc = "idle", !.seen = NoSeen]
  IN  /\ u.pc = "insert"
      /\ poll_results' =
           save_vote(poll_results, u.user_phone, u.option, timestamp_str)
      /\ sess' = [sess EXCEPT
                    ![s] = IF SaveVoteRaises(poll_results, u.user_phone)
                             THEN [done EXCEPT !.outcome = "error"]
                             ELSE [UserRun(done, settings, poll_results',
                                           clock)
                                     EXCEPT !.option = "",
                                            !.outcome = "recorded"]]
      /\ UNCHANGED <<settings, employees, clock, adm, budget>>

\* "Log Out": st.session_state.clear()
Logout(s) ==
  /\ sess[s].logged_in
  /\ sess[s].pc = "idle"
  /\ sess' = [sess EXCEPT ![s] = LoggedOut]
  /\ UNCHANGED <<settings, employees, poll_results, clock, adm, budget>>

\* Time passes.  The instants looked at are those around the two ends of
\* the window that is persisted at the moment.
ClockPoints(db) ==
  LET cfg == get_poll_config(db)
      start == Instant(cfg, cfg.poll_start)
      end == Instant(cfg, cfg.poll_end)
  IN  {start - 1, start, end, end + 1}

Tick(t) ==
  /\ t > clock
  /\ clock' = t
  /\ UNCHANGED <<settings, employees, poll_results, sess, adm, budget>>

(***************************************************************************)
(* The admin session: show_admin_dashboard.                                *)
(***************************************************************************)
\* st.session_state after clear().  A missing flag and a False one, a
\* missing requested_tab and None, read the same everywhere in the code.
\* save_pc is the position of a save_settings_to_db in progress (the number
\* of the next set_setting call, 0 when none), save_src the button that
\* started it, save_msg the kind of the last save's message and save_old
\* the settings table as that save found it.  upload is the roster upload
\* in progress, if any: its file, the rows of valid_df still to insert and
\* the employees table as the connection of the upload sees it; upload_err
\* tells that the last upload ended in the "Error" message.
AdminCleared ==
  [admin_logged_in |-> FALSE, active_admin_tab |-> None,
   show_unsaved_dialog |-> FALSE, requested_tab |-> None,
   saving_in_progress |-> FALSE, uploader_key |-> 0,
   confirm_reset_settings |-> FALSE, prev_time_input |-> None,
   draft |-> None, save_pc |-> 0, save_src |-> "", save_msg |-> "",
   save_old |-> NoSettings, upload |-> None, upload_err |-> FALSE]

\* "Initialize settings in session state EARLY": the settings_* keys.
InitDraft(cfg) ==
  LET s12 == convert_24hr_to_12hr(TimeOf(cfg.poll_start)[1],
                                  TimeOf(cfg.poll_start)[2])
      e12 == convert_24hr_to_12hr(TimeOf(cfg.poll_end)[1],
                                  TimeOf(cfg.poll_end)[2])
  IN  [timezone |-> cfg.tz, time_format |-> cfg.time_format,
       time_input |-> "12",
       start_date |-> DateOf(cfg.poll_start),
       end_date |-> DateOf(cfg.poll_end),
       validation |-> cfg.validation_mode, col_phone |-> cfg.col_phone,
       start_hour |-> s12[1], start_min |-> s12[2], start_period |-> s12[3],
       end_hour |-> e12[1], end_min |-> e12[2], end_period |-> e12[3],
       start_time_24 |-> TimeOf(cfg.poll_start),
       end_time_24 |-> TimeOf(cfg.poll_end)]

\* Mutant of SyncTimeInput: the representations are left as they are.
SyncTimeInput_Skip(a) ==
  IF Some(a.draft[1].time_input)
       # (IF a.prev_time_input = None THEN Some("12") ELSE a.prev_time_input)
    THEN [a EXCEPT !.prev_time_input = Some(a.draft[1].time_input)]
    ELSE a

\* "Sync values when format changes"
SyncTimeInput(a) ==
  LET d == a.draft[1]
      prev_time_input ==
        IF a.prev_time_input = None THEN "12" ELSE a.prev_time_input[1]
      to24 == [d EXCEPT
                 !.start_time_24 =
                   convert_12hr_to_24hr(d.start_hour, d.start_min,
                                        d.start_period),
                 !.end_time_24 =
                   convert_12hr_to_24hr(d.end_hour, d.end_min, d.end_period)]
      s12 == convert_24hr_to_12hr(d.start_time_24[1], d.start_time_24[2])
      e12 == convert_24hr_to_12hr(d.end_time_24[1], d.end_time_24[2])
      to12 == [d EXCEPT
                 !.start_hour = s12[1], !.start_min = s12[2],
                 !.start_period = s12[3],
                 !.end_hour = e12[1], !.end_min = e12[2],
                 !.end_period = e12[3]]
  IN  IF d.time_input # prev_time_input
        THEN [a EXCEPT
                !.draft = Some(IF d.time_input = "24" THEN to24 ELSE to12),
                !.prev_time_input = Some(d.time_input)]
        ELSE a

SettingsShown(a) == a.active_admin_tab = Some(2) \/ a.show_unsaved_dialog

\* A new script run no longer shows the message of the last save.
ClearMsg(a) ==
  [a EXCEPT !.save_msg = "", !.save_src = "", !.save_old = NoSettings,
            !.upload_err = FALSE]

\* One script run of show_admin_dashboard without a click: the draft and
\* the tab state are initialised, and the Settings section, when it is
\* drawn, synchronises the two time representations.
Render(a, db) ==
  LET a0 == ClearMsg(a)
      a1 == IF SettingsShown(a0) /\ a0.draft = None
              THEN [a0 EXCEPT !.draft = Some(InitDraft(get_poll_config(db)))]
              ELSE a0
      a2 == IF a1.active_admin_tab = None
              THEN [a1 EXCEPT !.active_admin_tab = Some(0)]
              ELSE a1
  IN  IF SettingsShown(a2) THEN SyncTimeInput(a2) ELSE a2

\* The start and end times of day that the draft's input mode selects.
DraftStartTime(d) ==
  IF d.time_input = "24" THEN d.start_time_24
  ELSE convert_12hr_to_24hr(d.start_hour, d.start_min, d.start_period)

DraftEndTime(d) ==
  IF d.time_input = "24" THEN d.end_time_24
  ELSE convert_12hr_to_24hr(d.end_hour, d.end_min, d.end_period)

\* new_start and new_end, as aware instants and as their wall time.
NewStart(d) == Combine(d.start_date, DraftStartTime(d))
NewEnd(d) == Combine(d.end_date, DraftEndTime(d))

check_settings_changed(a, db) ==
  LET d == a.draft[1]
      saved_start_str == db.poll_start
      saved_end_str == db.poll_end
      saved_tz == get_setting(db, "timezone", DEFAULT_TIMEZONE)
      saved_time_format == get_setting(db, "time_format", DEFAULT_TIME_FORMAT)
      saved_val_mode ==
        get_setting(db, "validation_mode", DEFAULT_PHONE_VALIDATION_MODE)
      saved_col_phone == get_setting(db, "col_phone", DEFAULT_COL_PHONE)
  IN  IF a.draft = None THEN FALSE
      ELSE IF \/ d.timezone # saved_tz
              \/ d.time_format # saved_time_format
              \/ d.validation # saved_val_mode
              \/ Strip(d.col_phone) # saved_col_phone
        THEN TRUE
      ELSE \/ Some(Strftime(NewStart(d))) # saved_start_str
           \/ Some(Strftime(NewEnd(d))) # saved_end_str

\* Mutant of SaveRejected: "<" for "<=", an empty window is accepted.
SaveRejected_Strict(d) ==
  Localize(NewEnd(d), d.timezone) < Localize(NewStart(d), d.timezone)

\* The validation of save_settings_to_db, and the six values it writes, in
\* the order of its set_setting calls.
SaveRejected(d) ==
  Localize(NewEnd(d), d.timezone) <= Localize(NewStart(d), d.timezone)

SaveValue(d, key) ==
  CASE key = "poll_start" -> Strftime(NewStart(d))
    [] key = "poll_end" -> Strftime(NewEnd(d))
    [] key = "validation_mode" -> d.validation
    [] key = "timezone" -> d.timezone
    [] key = "time_format" -> d.time_format
    [] key = "col_phone" -> Strip(d.col_phone)

Idle(a) == a.admin_logged_in /\ a.save_pc = 0 /\ a.upload = None

\* "Login as Admin"
AdminLogin(pw_ok) ==
  /\ ~adm.admin_logged_in
  /\ adm' = IF pw_ok
              THEN Render([adm EXCEPT !.admin_logged_in = TRUE], settings)
              ELSE adm
  /\ UNCHANGED <<settings, employees, poll_results, clock, sess, budget>>

\* "Logout" of the dashboard: st.session_state.clear()
AdminLogout ==
  /\ Idle(adm)
  /\ adm' = AdminCleared
  /\ UNCHANGED <<settings, employees, poll_results, clock, sess, budget>>

\* Mutant of TabHandler: the check for unsaved changes is missing.
TabHandler_NoGate(a, db, idx) == [a EXCEPT !.active_admin_tab = Some(idx)]

\* The handler of the custom tab buttons.
TabHandler(a, db, idx) ==
  IF a.active_admin_tab = Some(2) /\ idx # 2
    THEN IF a.draft # None /\ check_settings_changed(a, db)
           THEN [a EXCEPT !.show_unsaved_dialog = TRUE,
                          !.requested_tab = Some(idx)]
           ELSE [a EXCEPT !.active_admin_tab = Some(idx)]
    ELSE [a EXCEPT !.active_admin_tab = Some(idx)]

TabClick(idx) ==
  /\ Idle(adm)
  /\ adm' = Render(TabHandler(adm, settings, idx), settings)
  /\ UNCHANGED <<settings, employees, poll_results, clock, sess, budget>>

\* What follows a successful save: after "Save All Settings" the draft is
\* deleted, after "Save & Switch" the view moves to the requested tab too.
DeleteDraft(a) == [a EXCEPT !.draft = None]

AfterSave(a) ==
  IF a.save_src = "dialog"
    THEN [DeleteDraft(a) EXCEPT
            !.active_admin_tab = a.requested_tab,
            !.show_unsaved_dialog = FALSE,
            !.requested_tab = None]
    ELSE [DeleteDraft(a) EXCEPT !.saving_in_progress = FALSE]

\* "Save All Settings" (src = "button") and "Save & Switch" (src =
\* "dialog"), up to the validation in save_settings_to_db.
SaveClick(src) ==
  LET d == adm.draft[1]
  IN  /\ Idle(adm)
      /\ adm.draft # None
      /\ src = "button" => SettingsShown(adm) /\ ~adm.saving_in_progress
      /\ src = "dialog" => adm.show_unsaved_dialog
      /\ IF SaveRejected(d)
           THEN /\ adm' = [adm EXCEPT !.save_msg = "invalid",
                                      !.save_src = src,
                                      !.save_old = settings]
                /\ UNCHANGED budget
           ELSE /\ budget.saves > 0
                /\ adm' = [adm EXCEPT
                             !.save_pc = 1, !.save_src = src,
                             !.save_msg = "", !.save_old = settings,
                             !.saving_in_progress = (src = "button")]
                /\ budget' = [budget EXCEPT !.saves = @ - 1]
      /\ UNCHANGED <<settings, employees, poll_results, clock, sess>>

\* The next set_setting call of the save in progress, each with its own
\* commit; after the sixth the save returns success.
SaveWrite ==
  LET key == SettingKeys[adm.save_pc]
  IN  /\ adm.save_pc \in 1..6
      /\ settings' = set_setting(settings, key, SaveValue(adm.draft[1], key))
      /\ adm' = IF adm.save_pc < 6
                  THEN [adm EXCEPT !.save_pc = @ + 1]
                  ELSE [Render(AfterSave([adm EXCEPT !.save_pc = 0]),
                               settings')
                          EXCEPT !.save_msg = "saved"]
      /\ UNCHANGED <<employees, poll_results, clock, sess, budget>>

\* The next set_setting call raises (the database is locked or cannot be
\* written): "except Exception" makes the save return failure.
SaveFault ==
  /\ adm.save_pc \in 1..6
  /\ adm' = [adm EXCEPT !.save_pc = 0, !.save_msg = "error",
                        !.saving_in_progress = FALSE]
  /\ UNCHANGED <<settings, employees, poll_results, clock, sess, budget>>

\* Mutant of DiscardHandler: the settings_* keys are not deleted.
DiscardHandler_KeepDraft(a) ==
  [a EXCEPT !.active_admin_tab = a.requested_tab,
            !.show_unsaved_dialog = FALSE,
            !.requested_tab = None]

\* "Discard & Switch"
DiscardHandler(a) ==
  [DeleteDraft(a) EXCEPT !.active_admin_tab = a.requested_tab,
                         !.show_unsaved_dialog = FALSE,
                         !.requested_tab = None]

DiscardSwitch ==
  /\ Idle(adm)
  /\ adm.show_unsaved_dialog
  /\ adm' = Render(DiscardHandler(adm), settings)
  /\ UNCHANGED <<settings, employees, poll_results, clock, sess, budget>>

\* "Cancel"
CancelHandler(a) ==
  [a EXCEPT !.show_unsaved_dialog = FALSE, !.requested_tab = None]

CancelSwitch ==
  /\ Idle(adm)
  /\ adm.show_unsaved_dialog
  /\ adm' = Render(CancelHandler(adm), settings)
  /\ UNCHANGED <<settings, employees, poll_results, clock, sess, budget>>

\* A widget of the Settings section is given a new value.
EditDraft(field, value) ==
  /\ Idle(adm)
  /\ SettingsShown(adm)
  /\ adm.draft # None
  /\ budget.edits > 0
  /\ adm.draft[1][field] # value
  /\ adm' = Render([adm EXCEPT !.draft = Some([@[1] EXCEPT ![field] = value])],
                   settings)
  /\ budget' = [budget EXCEPT !.edits = @ - 1]
  /\ UNCHANGED <<settings, employees, poll_results, clock, sess>>

\* The widgets for the time of day are drawn for the chosen input mode only.
EditDraft12(field, value) ==
  /\ adm.draft # None
  /\ adm.draft[1].time_input = "12"
  /\ EditDraft(field, value)

EditDraft24(field, value) ==
  /\ adm.draft # None
  /\ adm.draft[1].time_input = "24"
  /\ EditDraft(field, value)

\* "Reset": the first click asks for confirmation, the second deletes every
\* settings row and the draft.
ResetSettings ==
  /\ Idle(adm)
  /\ SettingsShown(adm)
  /\ IF adm.confirm_reset_settings
       THEN /\ settings' = NoSettings
            /\ adm' = Render([DeleteDraft(adm) EXCEPT
                                !.confirm_reset_settings = FALSE],
                             settings')
       ELSE /\ adm' = [ClearMsg(adm) EXCEPT !.confirm_reset_settings = TRUE]
            /\ UNCHANGED settings
  /\ UNCHANGED <<employees, poll_results, clock, sess, budget>>

\* "Clear Responses"
ClearResponses ==
  /\ Idle(adm)
  /\ SettingsShown(adm)
  /\ poll_results' = {}
  /\ adm' = Render(adm, settings)
  /\ UNCHANGED <<settings, employees, clock, sess, budget>>

\* "Reset Database"
ResetDatabase ==
  /\ Idle(adm)
  /\ SettingsShown(adm)
  /\ poll_results' = {}
  /\ employees' = <<>>
  /\ adm' = Render(adm, settings)
  /\ UNCHANGED <<settings, clock, sess, budget>>

(***************************************************************************)
(* Roster upload: "Confirm Upload & Overwrite Database".                   *)
(***************************************************************************)
RECURSIVE CleanRows(_)
CleanRows(rows) ==
  IF rows = <<>> THEN <<>>
  ELSE <<[Head(rows) EXCEPT !.phone = clean_phone(@)]>> \o CleanRows(Tail(rows))

RECURSIVE ValidRows(_, _)
ValidRows(rows, mode) ==
  IF rows = <<>> THEN <<>>
  ELSE IF validate_phone(Head(rows).phone, mode)
    THEN <<Head(rows)>> \o ValidRows(Tail(rows), mode)
  ELSE ValidRows(Tail(rows), mode)

\* INSERT OR IGNORE INTO employees, row by row
RECURSIVE InsertOrIgnore(_, _)
InsertOrIgnore(emps, rows) ==
  IF rows = <<>> THEN emps
  ELSE IF \E i \in 1..Len(emps) : emps[i].phone = Head(rows).phone
    THEN InsertOrIgnore(emps, Tail(rows))
  ELSE InsertOrIgnore(Append(emps, Head(rows)), Tail(rows))

\* DELETE FROM employees, the inserts and the commit: one transaction.
ReplaceRoster(rows, mode) ==
  InsertOrIgnore(<<>>, ValidRows(CleanRows(rows), mode))

P92300sp ==
  <<" ", "+", "9", "2", " ", "3", "0", "0", " ", "1", "2", "3", "4", "5", "6",
    "7">>
ColMobile == <<"M", "o", "b", "i", "l", "e">>
ColMobileSp == <<"M", "o", "b", "i", "l", "e", " ">>

RosterA ==
  <<[phone |-> P0300, info |-> "Ali"], [phone |-> P0311, info |-> "Sara"]>>
RosterB ==
  <<[phone |-> P92300sp, info |-> "Ali"], [phone |-> PShort, info |-> "Bad"],
    [phone |-> P92300, info |-> "Dup"]>>

UploadFiles ==
  {[col |-> DEFAULT_COL_PHONE, rows |-> RosterA],
   [col |-> DEFAULT_COL_PHONE, rows |-> RosterB],
   [col |-> ColMobile, rows |-> RosterA]}

ConfirmUpload(file) ==
  LET cfg == get_poll_config(settings)
  IN  /\ Idle(adm)
      /\ adm.active_admin_tab = Some(1)
      /\ ~adm.show_unsaved_dialog
      /\ adm.uploader_key < MaxUploads
      /\ IF file.col = cfg.col_phone
           THEN /\ employees' = ReplaceRoster(file.rows, cfg.validation_mode)
                /\ adm' = Render([adm EXCEPT !.uploader_key = @ + 1], settings)
           ELSE UNCHANGED <<employees, adm>>
      /\ UNCHANGED <<settings, poll_results, clock, sess, budget>>

\* Mutant of UploadBegin: every row of the file goes to valid_df.
UploadBegin_NoValidation(file) ==
  LET cfg == get_poll_config(settings)
  IN  /\ Idle(adm)
      /\ adm.active_admin_tab = Some(1)
      /\ ~adm.show_unsaved_dialog
      /\ adm.uploader_key < MaxUploads
      /\ file.col = cfg.col_phone
      /\ adm' = [ClearMsg(adm) EXCEPT
                   !.upload =
                     Some([file |-> file, rows |-> CleanRows(file.rows),
                           txn |-> <<>>])]
      /\ UNCHANGED <<settings, employees, poll_results, clock, sess, budget>>

\* The same handler statement by statement.  The connection of the upload
\* opens a transaction at its DELETE; until conn.commit() its changes are
\* in that transaction only and every other connection (a login, a lookup)
\* reads the committed table, employees.
\* Mutant of UploadBegin: the DELETE is committed on its own.
UploadBegin_AutoCommit(file) ==
  LET cfg == get_poll_config(settings)
  IN  /\ Idle(adm)
      /\ adm.active_admin_tab = Some(1)
      /\ ~adm.show_unsaved_dialog
      /\ adm.uploader_key < MaxUploads
      /\ file.col = cfg.col_phone
      /\ employees' = <<>>
      /\ adm' = [ClearMsg(adm) EXCEPT
                   !.upload =
                     Some([file |-> file,
                           rows |-> ValidRows(CleanRows(file.rows),
                                              cfg.validation_mode),
                           txn |-> <<>>])]
      /\ UNCHANGED <<settings, poll_results, clock, sess, budget>>

\* The click on the button, drawn when the file has the phone column:
\* valid_df is in hand and DELETE FROM employees has run.
UploadBegin(file) ==
  LET cfg == get_poll_config(settings)
  IN  /\ Idle(adm)
      /\ adm.active_admin_tab = Some(1)
      /\ ~adm.show_unsaved_dialog
      /\ adm.uploader_key < MaxUploads
      /\ file.col = cfg.col_phone
      /\ adm' = [ClearMsg(adm) EXCEPT
                   !.upload =
                     Some([file |-> file,
                           rows |-> ValidRows(CleanRows(file.rows),
                                              cfg.validation_mode),
                           txn |-> <<>>])]
      /\ UNCHANGED <<settings, employees, poll_results, clock, sess, budget>>

\* The INSERT OR IGNORE of the next row of valid_df.
UploadInsert ==
  /\ adm.upload # None
  /\ adm.upload[1].rows # <<>>
  /\ adm' = [adm EXCEPT
               !.upload =
                 Some([adm.upload[1] EXCEPT
                         !.txn = InsertOrIgnore(@, <<Head(adm.upload[1].rows)>>),
                         !.rows = Tail(@)])]
  /\ UNCHANGED <<settings, employees, poll_results, clock, sess, budget>>

\* Mutant of UploadCommit: the upload deletes the responses as well.
UploadCommit_DropResponses ==
  /\ adm.upload # None
  /\ adm.upload[1].rows = <<>>
  /\ employees' = adm.upload[1].txn
  /\ poll_results' = {}
  /\ adm' = Render([adm EXCEPT !.upload = None, !.uploader_key = @ + 1],
                   settings)
  /\ UNCHANGED <<settings, clock, sess, budget>>

\* conn.commit(), the new uploader key and the rerun.
UploadCommit ==
  /\ adm.upload # None
  /\ adm.upload[1].rows = <<>>
  /\ employees' = adm.upload[1].txn
  /\ adm' = Render([adm EXCEPT !.upload = None, !.uploader_key = @ + 1],
                   settings)
  /\ UNCHANGED <<settings, poll_results, clock, sess, budget>>

\* A statement between the DELETE and the commit raises (the database is
\* locked or cannot be written): get_db closes the connection, which rolls
\* the transaction back, and "except Exception" shows the error.
UploadFault ==
  /\ adm.upload # None
  /\ adm' = [adm EXCEPT !.upload = None, !.upload_err = TRUE]
  /\ UNCHANGED <<settings, employees, poll_results, clock, sess, budget>>

(***************************************************************************)
(* The values the admin gives the widgets of the Settings section.         *)
(***************************************************************************)
Timezones == {"Asia/Karachi", "UTC"}
TimeFormats == {"12", "24"}
ValidationModes == {"flexible", "strict"}
DateChoices == {0} \cup {30 + k : k \in 1..MaxDayShift}
Hour12Choices == {9, 12}
MinuteChoices == {0, 30}
Periods == {"AM", "PM"}
Time24Choices == {<<0, 0>>, <<9, 0>>, <<12, 30>>}
ColChoices == {DEFAULT_COL_PHONE, ColMobileSp}

(***************************************************************************)
(* Spec: the poll lifecycle.  The staff sessions, the clock, and the admin *)
(* operations that write the employees and poll_results tables: roster     *)
(* upload and the two bulk clears.  The database is fresh (init_db) and    *)
(* nobody is logged in.                                                    *)
(***************************************************************************)
SubmitOptions == {"I am okay and safe.", "I am stuck and help is needed."}

Fresh ==
  /\ settings = NoSettings
  /\ poll_results = {}
  /\ clock = Localize(DEFAULT_POLL_START, DEFAULT_TIMEZONE) - 1
  /\ sess = [s \in Sessions |-> LoggedOut]
  /\ adm = AdminCleared

Init ==
  /\ Fresh
  /\ employees = <<>>
  /\ budget = [edits |-> 0, saves |-> 0]

StaffNext(S) ==
  \/ \E s \in S, p \in PhoneInputs, ok \in BOOLEAN : Login(s, p, ok)
  \/ \E s \in S : Refresh(s)
  \/ \E s \in S, o \in SubmitOptions : SubmitCheck(s, o)
  \/ \E s \in S : SubmitInsert(s)
  \/ \E s \in S : Logout(s)
  \/ \E t \in ClockPoints(settings) : Tick(t)

DataNext ==
  \/ AdminLogin(TRUE)
  \/ \E idx \in 0..2 : TabClick(idx)
  \/ \E f \in UploadFiles : ConfirmUpload(f)
  \/ ClearResponses
  \/ ResetDatabase

Next == StaffNext(Sessions) \/ DataNext

Spec == Init /\ [][Next]_vars

(***************************************************************************)
(* SpecWindow: the poll window under change.  One staff session and the    *)
(* clock, while the admin moves the poll dates and saves them key by key.  *)
(* The roster is in place.                                                 *)
(***************************************************************************)
InitWindow ==
  /\ Fresh
  /\ employees = ReplaceRoster(RosterA, DEFAULT_PHONE_VALIDATION_MODE)
  /\ budget = [edits |-> MaxPollEdits, saves |-> MaxSaves]

WindowNext ==
  \/ AdminLogin(TRUE)
  \/ TabClick(2)
  \/ \E v \in DateChoices : EditDraft("start_date", v)
  \/ \E v \in DateChoices : EditDraft("end_date", v)
  \/ SaveClick("button")
  \/ SaveWrite

\* The staff session, its runs reading the configuration key by key.
StaffWindowNext ==
  \/ \E p \in PhoneInputs, ok \in BOOLEAN : Login(1, p, ok)
  \/ \E o \in SubmitOptions \cup {""} : ReadStart(1, o)
  \/ ReadRest(1)
  \/ SubmitInsert(1)
  \/ Logout(1)
  \/ \E t \in ClockPoints(settings) : Tick(t)

NextWindow == StaffWindowNext \/ WindowNext

SpecWindow == InitWindow /\ [][NextWindow]_vars

(***************************************************************************)
(* SpecSettings: the admin's settings flow alone.  Every widget of the     *)
(* Settings section, both save buttons, a failing write, the unsaved-      *)
(* changes dialog, Reset and Logout; no staff session acts and the clock   *)
(* stands still.  The settings table is empty or holds an earlier save.    *)
(***************************************************************************)
\* The settings table after an earlier admin session saved a poll from
\* 2026-01-01 09:00 to 2026-02-01 09:00 with every other field at its default.
SavedEarlier ==
  [poll_start |-> Some(<<0, 9, 0, 0>>), poll_end |-> Some(<<31, 9, 0, 0>>),
   validation_mode |-> Some(DEFAULT_PHONE_VALIDATION_MODE),
   timezone |-> Some(DEFAULT_TIMEZONE),
   time_format |-> Some(DEFAULT_TIME_FORMAT),
   col_phone |-> Some(DEFAULT_COL_PHONE)]

InitSettings ==
  /\ settings \in {NoSettings, SavedEarlier}
  /\ employees = <<>>
  /\ poll_results = {}
  /\ clock = Localize(DEFAULT_POLL_START, DEFAULT_TIMEZONE) - 1
  /\ sess = [s \in Sessions |-> LoggedOut]
  /\ adm = AdminCleared
  /\ budget = [edits |-> MaxEdits, saves |-> MaxSaves]

FlowNext ==
  \/ \E ok \in BOOLEAN : AdminLogin(ok)
  \/ AdminLogout
  \/ \E idx \in 0..2 : TabClick(idx)
  \/ \E src \in {"button", "dialog"} : SaveClick(src)
  \/ SaveWrite
  \/ SaveFault
  \/ DiscardSwitch
  \/ CancelSwitch
  \/ ResetSettings

EditNext ==
  \/ \E v \in Timezones : EditDraft("timezone", v)
  \/ \E v \in TimeFormats : EditDraft("time_format", v)
  \/ \E v \in TimeFormats : EditDraft("time_input", v)
  \/ \E v \in ValidationModes : EditDraft("validation", v)
  \/ \E v \in ColChoices : EditDraft("col_phone", v)
  \/ \E v \in DateChoices : EditDraft("start_date", v)
  \/ \E v \in DateChoices : EditDraft("end_date", v)
  \/ \E v \in Hour12Choices : EditDraft12("start_hour", v)
  \/ \E v \in MinuteChoices : EditDraft12("start_min", v)
  \/ \E v \in Periods : EditDraft12("start_period", v)
  \/ \E v \in Hour12Choices : EditDraft12("end_hour", v)
  \/ \E v \in MinuteChoices : EditDraft12("end_min", v)
  \/ \E v \in Periods : EditDraft12("end_period", v)
  \/ \E v \in Time24Choices : EditDraft24("start_time_24", v)
  \/ \E v \in Time24Choices : EditDraft24("end_time_24", v)

NextSettings == FlowNext \/ EditNext

SpecSettings == InitSettings /\ [][NextSettings]_vars

(***************************************************************************)
(* SpecTimeInput: the two time representations of the Settings section.    *)
(* The admin edits the time of day in either input mode, switches the      *)
(* mode, saves, and leaves the section through the dialog.                 *)
(***************************************************************************)
InitTimeInput ==
  /\ Fresh
  /\ employees = <<>>
  /\ budget = [edits |-> MaxTimeEdits, saves |-> MaxSaves]

TimeEditNext ==
  \/ \E v \in TimeFormats : EditDraft("time_input", v)
  \/ \E v \in Hour12Choices : EditDraft12("start_hour", v)
  \/ \E v \in MinuteChoices : EditDraft12("start_min", v)
  \/ \E v \in Periods : EditDraft12("start_period", v)
  \/ \E v \in Periods : EditDraft12("end_period", v)
  \/ \E v \in Time24Choices : EditDraft24("start_time_24", v)
  \/ \E v \in Time24Choices : EditDraft24("end_time_24", v)

TimeFlowNext ==
  \/ AdminLogin(TRUE)
  \/ \E idx \in {0, 2} : TabClick(idx)
  \/ \E src \in {"button", "dialog"} : SaveClick(src)
  \/ SaveWrite
  \/ DiscardSwitch
  \/ CancelSwitch

NextTimeInput == TimeFlowNext \/ TimeEditNext

SpecTimeInput == InitTimeInput /\ [][NextTimeInput]_vars

(***************************************************************************)
(* SpecConvert: the conversion between the two time representations.  The  *)
(* admin is in the Settings section in 24-hour input mode with any time of *)
(* day in the start field, and switches the input mode back and forth.     *)
(***************************************************************************)
Hours24 == 0..23
Minutes == 0..59

InitConvert ==
  /\ settings = NoSettings
  /\ poll_results = {}
  /\ clock = Localize(DEFAULT_POLL_START, DEFAULT_TIMEZONE) - 1
  /\ sess = [s \in Sessions |-> LoggedOut]
  /\ employees = <<>>
  /\ budget = [edits |-> MaxTimeEdits, saves |-> 0]
  /\ \E h \in Hours24, mi \in Minutes :
       adm = [AdminCleared EXCEPT
                !.admin_logged_in = TRUE,
                !.active_admin_tab = Some(2),
                !.prev_time_input = Some("24"),
                !.draft =
                  Some([InitDraft(get_poll_config(settings)) EXCEPT
                          !.time_input = "24",
                          !.start_time_24 = <<h, mi>>])]

NextConvert == \E v \in TimeFormats : EditDraft("time_input", v)

SpecConvert == InitConvert /\ [][NextConvert]_vars

(***************************************************************************)
(* SpecPhone: the phone functions of a login.  A text is in the phone      *)
(* field of the login form; the login cleans it, and the lookup of the     *)
(* employee normalizes what the login cleaned.                             *)
(***************************************************************************)
PhoneAlphabet == {" ", "\t", "\n", "-", "(", ")", "3"}
PhoneTexts == UNION {[1..n -> PhoneAlphabet] : n \in 0..MaxPhoneLen}

\* The 10-digit cores that begin with 3: their next digits are free, the
\* rest is fixed.
CoreDigits == {"0", "2", "3", "9"}
CoreRest(n) == SubSeq(<<"9", "2", "0", "3", "4", "5", "6", "7", "8">>, 1, n)
Cores ==
  UNION {{<<"3">> \o f \o CoreRest(9 - n) : f \in [1..n -> CoreDigits]} :
           n \in 1..MaxCoreFree}
Prefixes == {<<"+", "9", "2">>, <<"9", "2">>, <<"0">>, <<>>}
PrefixedCores == {p \o c : p \in Prefixes, c \in Cores}

InitPhone ==
  /\ settings = NoSettings
  /\ poll_results = {}
  /\ clock = Localize(DEFAULT_POLL_START, DEFAULT_TIMEZONE) - 1
  /\ adm = AdminCleared
  /\ employees = <<>>
  /\ budget = [edits |-> 0, saves |-> 0]
  /\ \E x \in PhoneTexts \cup PrefixedCores :
       sess = [s \in Sessions |->
                 IF s = 1 THEN [LoggedOut EXCEPT !.phone_input = x,
                                                 !.pc = "typed"]
                 ELSE LoggedOut]

\* clean = clean_phone(phone_input) of the login handler.
LoginClean(s) ==
  /\ sess[s].pc = "typed"
  /\ sess' = [sess EXCEPT ![s].clean = clean_phone(sess[s].phone_input),
                          ![s].pc = "cleaned"]
  /\ UNCHANGED <<settings, employees, poll_results, clock, adm, budget>>

\* normalized_input = normalize_for_comparison(phone) of get_employee,
\* which the login calls with the cleaned text.
LookupNormalize(s) ==
  /\ sess[s].pc = "cleaned"
  /\ sess' = [sess EXCEPT
                ![s].normalized_input = normalize_for_comparison(sess[s].clean),
                ![s].pc = "normalized"]
  /\ UNCHANGED <<settings, employees, poll_results, clock, adm, budget>>

NextPhone == LoginClean(1) \/ LookupNormalize(1)

SpecPhone == InitPhone /\ [][NextPhone]_vars

(***************************************************************************)
(* SpecRoster: the roster under replacement.  A roster is in place; the    *)
(* admin uploads a file statement by statement, with a failing statement,  *)
(* changes the validation mode, saves, resets and clears, while one staff  *)
(* session logs in, submits and logs out.  The poll is open and the clock  *)
(* stands still; the saves write the dates and the timezone that the       *)
(* defaults give, so a staff run reads the same window from every state    *)
(* of the settings table.                                                  *)
(***************************************************************************)
P0333 == <<"0", "3", "3", "3", "1", "2", "3", "4", "5", "6", "7">>
P0500 == <<"0", "5", "0", "0", "1", "2", "3", "4", "5", "6", "7">>
PLetters == <<"a", "b", "c", "1", "2", "3", "4", "5">>

RosterOld ==
  <<[phone |-> P0300, info |-> "Ali"], [phone |-> P0333, info |-> "Omar"]>>
RosterC ==
  <<[phone |-> P0300, info |-> "Ali"], [phone |-> PShort, info |-> "Bad"],
    [phone |-> P0311, info |-> "Sara"], [phone |-> PLetters, info |-> "Bad"],
    [phone |-> P0500, info |-> "Zed"]>>

RosterFiles == UploadFiles \cup {[col |-> DEFAULT_COL_PHONE, rows |-> RosterC]}

InitRoster ==
  /\ settings = NoSettings
  /\ poll_results = {}
  /\ clock = Localize(DEFAULT_POLL_START, DEFAULT_TIMEZONE)
  /\ sess = [s \in Sessions |-> LoggedOut]
  /\ adm = AdminCleared
  /\ employees = ReplaceRoster(RosterOld, DEFAULT_PHONE_VALIDATION_MODE)
  /\ budget = [edits |-> MaxEdits, saves |-> MaxSaves]

UploadNext ==
  \/ \E f \in RosterFiles : UploadBegin(f)
  \/ UploadInsert
  \/ UploadCommit
  \/ UploadFault

RosterAdminNext ==
  \/ AdminLogin(TRUE)
  \/ \E idx \in 1..2 : TabClick(idx)
  \/ \E v \in ValidationModes : EditDraft("validation", v)
  \/ SaveClick("button")
  \/ SaveWrite
  \/ ResetSettings
  \/ ClearResponses
  \/ ResetDatabase

RosterStaffNext ==
  \/ \E p \in PhoneInputs, ok \in BOOLEAN : Login(1, p, ok)
  \/ \E o \in SubmitOptions : SubmitCheck(1, o)
  \/ SubmitInsert(1)
  \/ Logout(1)

NextRoster == RosterStaffNext \/ UploadNext \/ RosterAdminNext

SpecRoster == InitRoster /\ [][NextRoster]_vars

(***************************************************************************)
(* Properties of the response store (Spec).                                *)
(***************************************************************************)
\* The row that the run of session s at its insert step is about to write.
RowOf(u) ==
  [phone |-> u.user_phone, response |-> u.option,
   timestamp |-> Strftime(AsLocal(u.seen.now, u.seen.tz))]

\* Session s executes its save_vote in this step.
Inserts(s) == sess[s].pc = "insert" /\ sess'[s].pc # "insert"

OneRowPerPhone ==
  \A r1 \in poll_results, r2 \in poll_results : r1.phone = r2.phone => r1 = r2

\* A stored row stays as it is unless a bulk clear empties the table.
RowsKept ==
  \A r \in poll_results :
    r \in poll_results' \/ (poll_results' = {} /\ SettingsShown(adm))

\* The first submission for a phone is recorded.
FirstRecorded ==
  \A s \in Sessions :
    Inserts(s) /\ ~has_already_voted(poll_results, sess[s].user_phone)
      => /\ poll_results' = poll_results \cup {RowOf(sess[s])}
         /\ sess'[s].outcome = "recorded"

\* C1: the response store holds at most one row per phone; the first
\* submission for a phone is recorded, and no later step changes or removes
\* a stored row except a bulk clear, which empties the table.
C1_SubmissionExclusive ==
  []OneRowPerPhone /\ [][RowsKept /\ FirstRecorded]_vars

\* C1 witness: a row is stored for a phone, and another session logged in
\* with that phone is shown that the response is already recorded.
C1_Witness ==
  \E s \in Sessions, t \in Sessions, r \in poll_results :
    /\ s # t
    /\ sess[s].outcome = "recorded"
    /\ sess[t].logged_in
    /\ sess[s].user_phone = r.phone
    /\ sess[t].user_phone = r.phone
    /\ sess[t].view = "voted"

\* C2: an insert for a phone that already has a row (two runs passed the
\* already-voted check, the other one inserted first) fails with an error
\* and leaves the table as the first writer made it; there are never two
\* rows for the phone.
C2_RaceOneWinner ==
  /\ []OneRowPerPhone
  /\ [][\A s \in Sessions :
          Inserts(s) /\ has_already_voted(poll_results, sess[s].user_phone)
            => /\ poll_results' = poll_results
               /\ sess'[s].outcome = "error"]_vars

\* C2 witness: two sessions with the same phone both reached the insert;
\* one is recorded, the other got the error, and the stored row carries the
\* winner's choice, not the loser's.
C2_Witness ==
  \E s \in Sessions, t \in Sessions, r \in poll_results :
    /\ s # t
    /\ sess[s].user_phone = r.phone
    /\ sess[t].user_phone = r.phone
    /\ sess[s].outcome = "recorded"
    /\ sess[t].outcome = "error"
    /\ sess[t].option # r.response

\* C4: a row is inserted only for a phone that resolves to an employee of
\* the roster as it is when the insert happens.
C4_KnownEmployeeOnly ==
  [][\A r \in poll_results' \ poll_results :
       get_employee(employees, r.phone) # None]_vars

(***************************************************************************)
(* Properties of the poll window (SpecWindow).                             *)
(***************************************************************************)
InWindow(l) == l.start <= l.now /\ l.now <= l.end

\* C3: a run goes on to the insert only when its now lies inside the
\* window that is persisted at that moment, and that window and now are
\* what it carries to the insert; every new row is written by such a run;
\* and a submission that finds the poll not started or closed leaves the
\* response store unchanged.
C3_WindowGate ==
  [][/\ \A s \in Sessions :
          sess[s].pc # "insert" /\ sess'[s].pc = "insert"
            => /\ InWindow(RunLocals(settings, clock))
               /\ sess'[s].seen = RunLocals(settings, clock)
     /\ \A r \in poll_results' \ poll_results :
          \E s \in Sessions :
            Inserts(s) /\ r = RowOf(sess[s]) /\ InWindow(sess[s].seen)
     /\ \A s \in Sessions :
          /\ sess[s].pc # "insert"
          /\ sess[s].view = "form"
          /\ sess'[s].view \in {"not_started", "closed"}
          => poll_results' = poll_results /\ sess'[s].pc = "idle"]_vars

\* C5: whenever a run of a staff session shows a poll state, it is
\* NOT_STARTED exactly when now < start, OPEN (the form or the thank-you)
\* exactly when start <= now <= end, and CLOSED exactly when now > end, for
\* the start, end and now that the run has read.
C5_PollStateBoundaries ==
  [][\A s \in Sessions :
       /\ sess'[s] # sess[s]
       /\ sess'[s].logged_in
       /\ sess'[s].pc = "idle"
       /\ sess'[s].outcome # "error"
       => LET db == IF sess[s].pc = "read"
                      THEN [settings EXCEPT !.poll_start = sess[s].start_str]
                      ELSE settings
              l == RunLocals(db, clock)
              v == sess'[s].view
          IN  /\ v = "not_started" <=> l.now < l.start
              /\ v \in {"form", "voted"} <=> InWindow(l)
              /\ v = "closed" <=> l.now > l.end]_vars

(***************************************************************************)
(* Properties of the settings flow (SpecSettings).                         *)
(***************************************************************************)
\* C6: the persisted configuration, read with its defaults, has its end
\* strictly after its start in every reachable state.
C6_EndAfterStart ==
  LET cfg == get_poll_config(settings)
  IN  Instant(cfg, cfg.poll_end) > Instant(cfg, cfg.poll_start)

\* The settings table after a complete save of draft d.
FullySaved(d) ==
  [key \in {SettingKeys[i] : i \in 1..6} |-> Some(SaveValue(d, key))]

\* C7: while a save is in progress, and after a save that reported a
\* failure, the configuration read from the settings table is either the
\* one the save found or the one of all six new values; after a reported
\* failure it is the one the save found.
C7_SaveAllOrNothing ==
  /\ adm.save_pc > 0
       => \/ get_poll_config(settings) = get_poll_config(adm.save_old)
          \/ get_poll_config(settings) =
               get_poll_config(FullySaved(adm.draft[1]))
  /\ adm.save_msg = "error"
       => get_poll_config(settings) = get_poll_config(adm.save_old)

\* C8: a draft whose composed end is not after its composed start is never
\* written: the save reports the validation error, the settings table is as
\* the save found it, and the draft is still there.
C8_RejectsInvalidRange ==
  /\ adm.save_msg = "invalid"
       => /\ settings = adm.save_old
          /\ adm.save_pc = 0
          /\ adm.draft # None
          /\ NewEnd(adm.draft[1]) <= NewStart(adm.draft[1])
  /\ adm.save_pc > 0 => NewEnd(adm.draft[1]) > NewStart(adm.draft[1])
  /\ adm.draft # None /\ NewEnd(adm.draft[1]) <= NewStart(adm.draft[1])
       => adm.save_msg \in {"", "invalid"}

\* C8 witness: a save of a draft whose end equals its start was rejected.
C8_Witness ==
  /\ adm.save_msg = "invalid"
  /\ adm.draft # None
  /\ NewEnd(adm.draft[1]) = NewStart(adm.draft[1])

\* Some field of draft d differs from the persisted configuration cfg.
DraftDiffers(d, cfg) ==
  \/ d.timezone # cfg.tz
  \/ d.time_format # cfg.time_format
  \/ d.validation # cfg.validation_mode
  \/ Strip(d.col_phone) # cfg.col_phone
  \/ NewStart(d) # cfg.poll_start
  \/ NewEnd(d) # cfg.poll_end

\* C9: between saves, the unsaved-changes check is true exactly when some
\* draft field differs from the persisted configuration read with its
\* defaults.
C9_UnsavedExact ==
  adm.draft # None /\ adm.save_pc = 0
    => (check_settings_changed(adm, settings)
          <=> DraftDiffers(adm.draft[1], get_poll_config(settings)))

\* The admin is on Settings with a draft that differs from what is saved.
Gated ==
  /\ adm.active_admin_tab = Some(2)
  /\ adm.draft # None
  /\ DraftDiffers(adm.draft[1], get_poll_config(settings))

SaveSwitchDone ==
  adm.save_pc = 6 /\ adm.save_src = "dialog" /\ adm'.save_msg = "saved"

DiscardDone ==
  /\ adm.show_unsaved_dialog
  /\ adm.save_pc = 0
  /\ adm'.draft = None
  /\ settings' = settings
  /\ adm'.active_admin_tab = adm.requested_tab

\* C10: from the Settings view with a differing draft, a click on another
\* tab raises the dialog with that tab as the requested destination and
\* changes neither the active view nor the draft; the active view becomes
\* another tab only by a successful Save & Switch or by Discard & Switch;
\* and the dialog is raised without a change of view, draft or settings.
C10_NavigationGate ==
  /\ [](Gated /\ Idle(adm)
          => \A idx \in {0, 1} :
               LET a == Render(TabHandler(adm, settings, idx), settings)
               IN  /\ a.show_unsaved_dialog
                   /\ a.requested_tab = Some(idx)
                   /\ a.active_admin_tab = Some(2)
                   /\ a.draft = adm.draft)
  /\ [][Gated
          => /\ adm'.active_admin_tab \in {Some(0), Some(1)}
                  => SaveSwitchDone \/ DiscardDone
             /\ ~adm.show_unsaved_dialog /\ adm'.show_unsaved_dialog
                  => /\ adm'.active_admin_tab = Some(2)
                     /\ adm'.requested_tab \in {Some(0), Some(1)}
                     /\ adm'.draft = adm.draft
                     /\ settings' = settings]_vars

\* C10 witness: the dialog is up over a differing draft, the view is still
\* Settings and the Manage Users tab is the requested destination.
C10_Witness ==
  /\ Gated
  /\ adm.show_unsaved_dialog
  /\ adm.requested_tab = Some(1)

\* The step in which a save started by "Save & Switch" returns success, and
\* the step in which it returns the validation error.
SaveSwitchSucceeds ==
  adm.save_pc = 6 /\ adm.save_src = "dialog" /\ adm'.save_msg = "saved"

SaveSwitchRejected ==
  /\ Idle(adm)
  /\ adm.show_unsaved_dialog
  /\ adm'.save_msg = "invalid"
  /\ adm'.save_src = "dialog"

\* C11: when Save & Switch succeeds the settings table holds the six values
\* composed from the draft, the draft is gone, the dialog is closed and the
\* requested tab is the active one; when it fails the validation the active
\* tab is Settings, the dialog is still open with the same requested tab,
\* and the settings table and the draft are as they were.
C11_SaveAndSwitch ==
  [][/\ SaveSwitchSucceeds
          => /\ settings' = FullySaved(adm.draft[1])
             /\ adm'.draft = None
             /\ ~adm'.show_unsaved_dialog
             /\ adm.requested_tab # None
             /\ adm'.active_admin_tab = adm.requested_tab
             /\ adm'.requested_tab = None
     /\ SaveSwitchRejected
          => /\ adm'.active_admin_tab = Some(2)
             /\ adm'.show_unsaved_dialog
             /\ adm.requested_tab # None
             /\ adm'.requested_tab = adm.requested_tab
             /\ adm'.draft = adm.draft
             /\ settings' = settings]_vars

\* The dialog is showing and its three buttons can be clicked.
DialogUp == Idle(adm) /\ adm.show_unsaved_dialog

\* C12: wherever the dialog is showing, Discard & Switch leaves no draft,
\* closes the dialog and makes the requested tab the active one; and the
\* step that does so leaves the three tables as they are.
C12_DiscardAndSwitch ==
  /\ [](DialogUp
          => LET a == Render(DiscardHandler(adm), settings)
             IN  /\ a.draft = None
                 /\ ~a.show_unsaved_dialog
                 /\ adm.requested_tab # None
                 /\ a.active_admin_tab = adm.requested_tab
                 /\ a.requested_tab = None)
  /\ [][DialogUp /\ adm' = Render(DiscardHandler(adm), settings)
          => /\ settings' = settings
             /\ employees' = employees
             /\ poll_results' = poll_results]_vars

\* C12 witness: the admin switched the time input to 24-hour and changed
\* another field, and then left Settings without a draft, with every saved
\* value as it was and no save made: the draft was discarded.
C12_Witness ==
  /\ adm.admin_logged_in
  /\ adm.draft = None
  /\ ~adm.show_unsaved_dialog
  /\ adm.active_admin_tab \in {Some(0), Some(1)}
  /\ adm.prev_time_input = Some("24")
  /\ settings = SavedEarlier
  /\ budget.saves = MaxSaves

\* C13: wherever the dialog is showing, Cancel leaves the active tab on
\* Settings, closes the dialog and unsets the requested tab, and leaves the
\* draft's values and the settings table as they are, so that the draft
\* reports unsaved changes as before.
C13_CancelKeepsDraft ==
  /\ [](DialogUp
          => LET a == Render(CancelHandler(adm), settings)
             IN  /\ a.active_admin_tab = Some(2)
                 /\ ~a.show_unsaved_dialog
                 /\ a.requested_tab = None
                 /\ a.draft = adm.draft
                 /\ check_settings_changed(a, settings)
                      = check_settings_changed(adm, settings))
  /\ [][DialogUp /\ adm' = Render(CancelHandler(adm), settings)
          => settings' = settings]_vars

(***************************************************************************)
(* Properties of the roster (SpecRoster).                                  *)
(***************************************************************************)
\* The upload in progress commits in this step.
UploadCommits ==
  /\ adm.upload # None
  /\ adm'.upload = None
  /\ adm'.uploader_key = adm.uploader_key + 1

\* emps holds the rows of the file whose cleaned phone validates under
\* mode and no other row: one row for each such phone, with the info of
\* the first row of the file that has the phone.
ExactlyValidRows(emps, rows, mode) ==
  LET c == CleanRows(rows)
      FirstOf(ph) ==
        CHOOSE j \in 1..Len(c) :
          c[j].phone = ph /\ \A k \in 1..(j - 1) : c[k].phone # ph
  IN  /\ \A i \in 1..Len(emps) :
           /\ validate_phone(emps[i].phone, mode)
           /\ \E j \in 1..Len(c) : c[j].phone = emps[i].phone
           /\ emps[i] = c[FirstOf(emps[i].phone)]
      /\ \A j \in 1..Len(c) :
           validate_phone(c[j].phone, mode)
             => \E i \in 1..Len(emps) : emps[i].phone = c[j].phone
      /\ \A i1 \in 1..Len(emps), i2 \in 1..Len(emps) :
           emps[i1].phone = emps[i2].phone => i1 = i2

\* C14: after a confirmed roster upload the employees table holds exactly
\* the rows of the file whose cleaned phone validates under the configured
\* mode, one per distinct phone with the first occurrence winning; no
\* invalid row and no employee of the roster before is stored unless the
\* file has it.
C14_UploadExact ==
  [][UploadCommits
       => ExactlyValidRows(employees', adm.upload[1].file.rows,
                           get_poll_config(settings).validation_mode)]_vars

\* C14 witness: the file of three valid and two invalid rows has replaced
\* the roster of Ali and Omar, and exactly its three valid rows are stored.
C14_Witness ==
  /\ adm.uploader_key = 1
  /\ adm.upload = None
  /\ Len(employees) = 3
  /\ {employees[i].phone : i \in 1..Len(employees)}
       = {P0300, clean_phone(P0311), P0500}

\* The upload in progress ends in its error message in this step.
UploadFails == adm.upload # None /\ adm'.upload_err

\* C15: the replacement of the roster is atomic.  The committed employees
\* table, which is what a concurrent login or lookup reads, changes only at
\* the commit of an upload, from the roster before to the table holding
\* every row the upload inserted, or at "Reset Database"; an upload that
\* fails between its DELETE and its commit leaves the table as it was.
C15_ReplaceAtomic ==
  [][/\ employees' # employees
          => \/ /\ UploadCommits
                /\ adm.upload[1].rows = <<>>
                /\ employees' = adm.upload[1].txn
             \/ Idle(adm) /\ SettingsShown(adm) /\ employees' = <<>>
     /\ UploadFails => employees' = employees]_vars

\* C15 witness: an upload has failed after its DELETE, the roster of Ali
\* and Omar is in the table, and Ali is logged in.
C15_Witness ==
  /\ adm.upload_err
  /\ employees = ReplaceRoster(RosterOld, DEFAULT_PHONE_VALIDATION_MODE)
  /\ sess[1].logged_in

\* C16: a recorded response is never changed or removed except by "Clear
\* Responses" and "Reset Database", which empty the table from the Settings
\* section; a step of a submission only adds a row, and a login, a logout,
\* a step of a roster upload, of a settings save or of a settings reset
\* leaves the table as it is.
C16_ResponsesKept ==
  [][/\ ~(poll_results \subseteq poll_results')
          => /\ poll_results' = {}
             /\ Idle(adm)
             /\ SettingsShown(adm)
             /\ settings' = settings
             /\ employees' \in {employees, <<>>}
     /\ \/ settings' # settings
        \/ adm'.upload # adm.upload
        \/ adm'.uploader_key # adm.uploader_key
        \/ sess'[1].logged_in # sess[1].logged_in
        => poll_results' = poll_results]_vars

\* C16 witness: a response is stored, and the roster has been replaced,
\* the settings saved and reset again, and the staff session logged out.
C16_Witness ==
  /\ poll_results # {}
  /\ adm.uploader_key = 1
  /\ Idle(adm)
  /\ budget.saves = 0
  /\ settings = NoSettings
  /\ ~sess[1].logged_in

(***************************************************************************)
(* Properties of the time input (SpecTimeInput).                           *)
(***************************************************************************)
\* The admin switches the "Time input" radio in this step.
SwitchesTimeInput ==
  /\ Idle(adm)
  /\ adm.draft # None
  /\ adm'.draft # None
  /\ budget'.edits = budget.edits - 1
  /\ adm'.draft[1].time_input # adm.draft[1].time_input

\* The two representations of the draft give the same times of day.
InSync(d) ==
  /\ convert_12hr_to_24hr(d.start_hour, d.start_min, d.start_period)
       = d.start_time_24
  /\ convert_12hr_to_24hr(d.end_hour, d.end_min, d.end_period)
       = d.end_time_24

\* C17: a switch of the time-input mode converts the representation that
\* was edited into the other one: the composed start and end are the same
\* just before and just after the switch, and after it both
\* representations give the same times, whatever edits, switches, saves
\* and discards came before.
C17_SwitchKeepsTimes ==
  [][SwitchesTimeInput
       => /\ NewStart(adm'.draft[1]) = NewStart(adm.draft[1])
          /\ NewEnd(adm'.draft[1]) = NewEnd(adm.draft[1])
          /\ InSync(adm'.draft[1])]_vars

\* C17 witness: the start was set to 12:30 in 24-hour mode and the mode
\* switched back to 12-hour, which shows 12:30 PM.
C17_Witness ==
  /\ adm.draft # None
  /\ adm.draft[1].time_input = "12"
  /\ adm.prev_time_input = Some("12")
  /\ adm.draft[1].start_time_24 = <<12, 30>>
  /\ adm.draft[1].start_hour = 12
  /\ adm.draft[1].start_min = 30
  /\ adm.draft[1].start_period = "PM"
  /\ budget.edits = MaxTimeEdits - 3

(***************************************************************************)
(* Properties of the conversions (SpecConvert, SpecPhone).                 *)
(***************************************************************************)
\* C18: for every hour 0..23 and minute 0..59 convert_24hr_to_12hr gives
\* an hour in 1..12 with AM or PM, and convert_12hr_to_24hr gives the
\* original hour and minute back.  In 12-hour mode the 12-hour fields hold
\* the conversion of the 24-hour start field; the switch back to 24-hour
\* mode writes their conversion into that field.
C18_RoundTrip ==
  /\ [](adm.draft[1].time_input = "12"
          => LET d == adm.draft[1]
             IN  /\ d.start_hour \in 1..12
                 /\ d.start_period \in {"AM", "PM"}
                 /\ convert_12hr_to_24hr(d.start_hour, d.start_min,
                                         d.start_period) = d.start_time_24)
  /\ [][adm.draft[1].time_input = "12" /\ adm'.draft[1].time_input = "24"
          => adm'.draft[1].start_time_24 = adm.draft[1].start_time_24]_vars

\* C18 witness: 00:59 was converted to 12:59 AM and back.
C18_Witness ==
  /\ adm.draft[1].time_input = "24"
  /\ budget.edits = MaxTimeEdits - 2
  /\ adm.draft[1].start_time_24 = <<0, 59>>
  /\ adm.draft[1].start_hour = 12
  /\ adm.draft[1].start_min = 59
  /\ adm.draft[1].start_period = "AM"

\* C19: clean_phone is idempotent: cleaning the text that a login has
\* cleaned gives that text again, whatever was typed, texts that mix
\* spaces, tabs and newlines with "-", "(" and ")" included.
C19_CleanIdempotent ==
  sess[1].pc \in {"cleaned", "normalized"}
    => clean_phone(sess[1].clean) = sess[1].clean

\* C20: for every 10-digit core c that begins with 3, the texts "+92" c,
\* "92" c, "0" c and c itself are normalized to c.
C20_SameCore ==
  \A c \in Cores, p \in Prefixes :
    sess[1].pc = "normalized" /\ sess[1].phone_input = p \o c
      => sess[1].normalized_input = c

\* C20 witness: a core that itself begins with 392 was typed with the
\* prefix 92 and normalized to the core.
C20_Witness ==
  /\ sess[1].pc = "normalized"
  /\ sess[1].phone_input = <<"9", "2">> \o <<"3", "9", "2">> \o CoreRest(7)
  /\ sess[1].normalized_input = <<"3", "9", "2">> \o CoreRest(7)

(***************************************************************************)
(* Properties of the employee identity (Spec).                             *)
(***************************************************************************)
\* The row of the roster that a lookup of phone resolves to, as get_employee
\* finds it: the row with that phone, or else the first row with the same
\* normalized phone; 0 when there is none.
EmployeeIndex(emps, phone) ==
  LET Same(i) ==
        normalize_for_comparison(emps[i].phone)
          = normalize_for_comparison(phone)
  IN  IF \E i \in 1..Len(emps) : emps[i].phone = phone
        THEN CHOOSE i \in 1..Len(emps) : emps[i].phone = phone
      ELSE IF \E i \in 1..Len(emps) : Same(i)
        THEN CHOOSE i \in 1..Len(emps) :
               Same(i) /\ \A k \in 1..(i - 1) : ~Same(k)
      ELSE 0

\* C21: one response per employee identity across phone formats: two
\* stored responses whose phones resolve to the same employee of the roster
\* are one row.
C21_OnePerIdentity ==
  \A r1 \in poll_results, r2 \in poll_results :
    /\ EmployeeIndex(employees, r1.phone) # 0
    /\ EmployeeIndex(employees, r1.phone) = EmployeeIndex(employees, r2.phone)
    => r1 = r2

\* The "View Results" tab is drawn with its metrics and exports.
ResultsShown ==
  /\ adm.admin_logged_in
  /\ adm.active_admin_tab = Some(0)
  /\ ~adm.show_unsaved_dialog
  /\ employees # <<>>

\* C22: the not-voted view is exactly the set of employees for whom no
\* response is recorded, whatever format of the phone the employee logged
\* in with, and the "Not Voted" count is the size of that view and is never
\* negative.
C22_NotVotedView ==
  ResultsShown
    => /\ not_voted_df(employees, poll_results)
            = {i \in 1..Len(employees) :
                 \A r \in poll_results :
                   EmployeeIndex(employees, r.phone) # i}
       /\ total_not_voted(employees, poll_results)
            = Cardinality(not_voted_df(employees, poll_results))
       /\ total_not_voted(employees, poll_results) >= 0

(***************************************************************************)
(* Properties of the unsaved-changes dialog (SpecSettings).                *)
(***************************************************************************)
\* C23: whenever the unsaved-changes dialog is showing, the active tab is
\* Settings, a draft exists and the requested tab is one of the two other
\* tabs, never unset.
C23_DialogShape ==
  DialogUp
    => /\ adm.active_admin_tab = Some(2)
       /\ adm.draft # None
       /\ adm.requested_tab \in {Some(0), Some(1)}

====
